---- MODULE Spec2Model ----
(***************************************************************************)
(* Model of the Command Connector compatibility calculator:                *)
(*   - the connector recommender (app/recommend.py, app/calculations.py,   *)
(*     app/memory_management.py, main.py _perform_recommendations);        *)
(*   - the camera matching tiers (app/calculations.py get_camera_match);   *)
(*   - get_camera_match on a customer table: identify_model_column,        *)
(*     identify_count_column, get_camera_count (app/calculations.py) and   *)
(*     sanitize_customer_data (app/formatting.py).                         *)
(* Storage is kept in thousandths of a terabyte (0.256 TB = 256), so that  *)
(* the per-channel figures of the storage formulas are integers.           *)
(***************************************************************************)
EXTENDS Integers, Sequences, FiniteSets, TLC

VARIABLES
    pc,                 \* position of the running operation
    caller,             \* who called get_connectors: "test" or "recommend_connector"
    req_channels,       \* channels argument of the outermost get_connectors call
    req_storage,        \* storage argument of the outermost get_connectors call
    prior,              \* recommendation argument of the outermost call
    channels,           \* get_connectors: channels of the current frame
    storage,            \* get_connectors: storage of the current frame
    recommendation,     \* get_connectors: the accumulated list
    depth,              \* number of nested get_connectors frames
    low_channels,       \* recommend_connector: low_channels argument
    high_channels,      \* recommend_connector: high_channels argument
    retention,          \* recommend_connectors: retention argument
    change,             \* recommend_connectors: change argument
    low_storage,        \* recommend_connectors: calculate_low_mp_storage result
    high_storage,       \* recommend_connectors: calculate_4k_storage result
    memory,             \* MemoryStorage: recommendations and excess_channels
    stdout,             \* what recommend_connector printed
    recommendation_text,\* main.py: the recommendation text widget
    runs,               \* number of recommend_connectors calls so far
    run_calc,           \* recommend_connectors: the run_calc local
    camera,             \* match_camera: the cell
    scores,             \* the scorers' values of the cell against each catalog name
    iter_order,         \* iteration order of the catalog name set
    result,             \* match_camera: the returned row
    customer_list,      \* get_camera_match: the customer table, by column
    verkada_cameras,    \* get_camera_match: the model names of the catalog
    set_order,          \* iteration order of get_camera_set's result
    entry,              \* how get_camera_match was reached
    camera_column,      \* get_camera_match: identify_model_column's result
    results,            \* get_camera_match: the result frame, row by row
    raised,             \* the exception that left get_camera_match
    match_runs,         \* number of get_camera_match calls so far
    previous,           \* outcome of the first get_camera_match call
    count_column_name,  \* get_camera_count: identify_count_column's result
    output,             \* print_results: the rows of the table, as sorted
    raw_list,           \* sanitize_customer_data: the table it was given
    camera_mp,          \* count_mp: the megapixels of the catalog models
    mp_counts,          \* count_mp: [low_count, high_count] as returned
    change_detected_flag,  \* CameraCompatibilityApp.change_detected_flag
    customer_file_path,    \* CameraCompatibilityApp.customer_file_path
    run_button,         \* state of the 'Run Check' button
    last_check,         \* how the last run_check ended, "none" before the first
    change_pending,     \* a change event happened since the last run_check
    app_events,         \* number of events the application handled
    csv_files,          \* cc_db: the rows of table csv_files, by site_name
    calculated_results, \* cc_db: the rows of table calculated_results
    db_error,           \* cc_db: the error the last add_file_results logged
    db_calls            \* cc_db: number of add_file_results calls

vars == << pc, caller, req_channels, req_storage, prior, channels, storage,
           recommendation, depth, low_channels, high_channels, retention,
           change, low_storage, high_storage, memory, stdout,
           recommendation_text, runs, run_calc, camera, scores, iter_order,
           result, customer_list, verkada_cameras, set_order, entry,
           camera_column, results, raised, match_runs, previous,
           count_column_name, output, raw_list, camera_mp, mp_counts,
           change_detected_flag, customer_file_path, run_button, last_check,
           change_pending, app_events, csv_files, calculated_results,
           db_error, db_calls >>

recVars == << pc, caller, req_channels, req_storage, prior, channels, storage,
              recommendation, depth, low_channels, high_channels, retention,
              change, low_storage, high_storage, memory, stdout,
              recommendation_text, runs, run_calc >>

\* the recommender's variables other than pc
recState == << caller, req_channels, req_storage, prior, channels, storage,
               recommendation, depth, low_channels, high_channels, retention,
               change, low_storage, high_storage, memory, stdout,
               recommendation_text, runs, run_calc >>

matchVars == << camera, scores, iter_order, result >>

tableVars == << customer_list, verkada_cameras, set_order, entry,
                camera_column, results, raised, match_runs, previous,
                count_column_name >>

\* the variables of the application around the matching and the recommender
appVars == << output, raw_list, camera_mp, mp_counts, change_detected_flag,
             customer_file_path, run_button, last_check, change_pending,
             app_events, csv_files, calculated_results, db_error, db_calls >>

\* the tables of cc_db
dbVars == << csv_files, calculated_results, db_error, db_calls >>

\* the variables of the application window
flagVars == << change_detected_flag, customer_file_path, run_button,
               last_check, change_pending, app_events >>

-----------------------------------------------------------------------------
(* Bounds of the model *)

\* largest channels argument of a direct get_connectors call
MaxChannels == 62
\* largest storage argument of a direct get_connectors call, in half terabytes
MaxHalfTB == 72
\* nested get_connectors frames the interpreter allows before RecursionError
MaxDepth == 5
\* largest low-resolution camera count fed to recommend_connectors
MaxLow == 12
\* largest high-resolution camera count fed to recommend_connectors
MaxHigh == 2
\* recommend_connectors calls in one session
MaxRuns == 2
\* largest number of rows of a customer table
MaxRows == 2
\* largest number of columns of a header row given to identify_count_column
MaxColumns == 3

\* largest number of rows of a result frame given to print_results
MaxResults == 3
\* events handled by the application window in one session
MaxEvents == 6
\* add_file_results calls in one session
MaxAdds == 3

-----------------------------------------------------------------------------
(* Values *)

\* Optional values: Python's None where a list or a number is expected
NoneList == [some |-> FALSE, value |-> << >>]
NoneInt == [some |-> FALSE, value |-> 0]
Some(v) == [some |-> TRUE, value |-> v]

\* n terabytes in thousandths of a terabyte
TB(n) == n * 1000

Abs(x) == IF x < 0 THEN -x ELSE x

\* mutant of Max0: the value is kept as it is
Max0Keep(x) == x

\* max(x, 0)
Max0(x) == IF x > 0 THEN x ELSE 0

Connector(n, s, l, h) ==
    [name |-> n, storage |-> s, low_channels |-> l, high_channels |-> h]

COMMAND_CONNECTORS ==
    << Connector("CC300-4TB", 4, 10, 5),
       Connector("CC300-8TB", 8, 10, 5),
       Connector("CC500-8TB", 8, 25, 12),
       Connector("CC500-16TB", 16, 25, 12),
       Connector("CC700-16TB", 16, 50, 25),
       Connector("CC700-32TB", 32, 50, 25) >>

RECURSIVE SumLowChannels(_)
SumLowChannels(list) ==
    IF list = << >> THEN 0
    ELSE Head(list).low_channels + SumLowChannels(Tail(list))

RECURSIVE SumStorage(_)
SumStorage(list) ==
    IF list = << >> THEN 0
    ELSE Head(list).storage + SumStorage(Tail(list))

-----------------------------------------------------------------------------
(* get_connectors *)

\* mutant of is_better_connector: the nearest channel count comes first
is_better_connector_channels(surplus_channels, surplus_storage, best, min_surplus_channels, min_surplus_storage) ==
    \/ best = 0
    \/ surplus_channels < min_surplus_channels
    \/ /\ surplus_channels = min_surplus_channels
       /\ surplus_storage < min_surplus_storage

\* is_better_connector; best = 0 stands for min_surplus_* = float("inf")
is_better_connector(surplus_channels, surplus_storage, best, min_surplus_channels, min_surplus_storage) ==
    \/ /\ surplus_channels >= 0
       /\ surplus_storage >= 0
       /\ \/ best = 0
          \/ surplus_storage < min_surplus_storage
          \/ /\ surplus_storage = min_surplus_storage
             /\ surplus_channels < min_surplus_channels
    \/ /\ surplus_channels = 0
       /\ (best = 0 \/ surplus_storage < TB(min_surplus_channels))

\* mutant of AlterStorage: only the first of the three ifs
AlterStorageFirst(s) == IF TB(4) < s /\ s < TB(8) THEN TB(8) ELSE s

\* "Alter Storage": the three ifs, in order
AlterStorage(s) ==
    LET s1 == IF TB(4) < s /\ s < TB(8) THEN TB(8) ELSE s
        s2 == IF TB(8) < s1 /\ s1 < TB(16) THEN TB(16) ELSE s1
    IN  IF TB(16) < s2 /\ s2 < TB(32) THEN TB(32) ELSE s2

\* "Alter channels"
AlterChannels(c) == IF 10 < c /\ c < 25 THEN 25 ELSE c

\* one iteration of "for device in COMMAND_CONNECTORS"
DeviceIteration(st, i) ==
    LET c == AlterChannels(st.channels)
        s == AlterStorage(st.storage)
        device == COMMAND_CONNECTORS[i]
        surplus_channels == Abs(device.low_channels - c)
        surplus_storage == Abs(TB(device.storage) - s)
    IN  IF is_better_connector(surplus_channels, surplus_storage, st.best,
                               st.min_surplus_channels, st.min_surplus_storage)
        THEN [channels |-> c, storage |-> s, best |-> i,
              min_surplus_channels |-> surplus_channels,
              min_surplus_storage |-> surplus_storage]
        ELSE [st EXCEPT !.channels = c, !.storage = s]

RECURSIVE DeviceLoop(_, _)
DeviceLoop(st, i) ==
    IF i > Len(COMMAND_CONNECTORS) THEN st
    ELSE DeviceLoop(DeviceIteration(st, i), i + 1)

\* the loop of a frame entered with (c, s), already clamped
SelectBest(c, s) ==
    DeviceLoop([channels |-> c, storage |-> s, best |-> 0,
                min_surplus_channels |-> 0, min_surplus_storage |-> 0], 1)

\* mutant of EndCase: leaves as soon as one of the two requirements is met
EndCaseEither(c, s) == c <= 0 \/ s <= 0

\* "End case": both requirements met
EndCase(c, s) == c <= 0 /\ s <= 0

\* mutant of ReduceChannels: subtracts the connector's high_channels
ReduceChannelsHigh(c, device) ==
    IF c > 0 THEN c - device.high_channels ELSE c

\* "Reduce the remaining channels and storage requirements"
ReduceChannels(c, device) ==
    IF c > 0 THEN c - device.low_channels ELSE c

\* mutant of ReduceStorage: the storage requirement is not reduced
ReduceStorageKept(s, device) == s

ReduceStorage(s, device) ==
    IF s > 0 THEN s - TB(device.storage) ELSE s

\* the frame's state after its body ran up to the recursive call
FrameBody(c0, s0, list) ==
    LET sel == SelectBest(Max0(c0), Max0(s0))
    IN  IF sel.best # 0
        THEN LET device == COMMAND_CONNECTORS[sel.best]
             IN  [selected |-> TRUE,
                  recommendation |-> Append(list, device),
                  channels |-> ReduceChannels(sel.channels, device),
                  storage |-> ReduceStorage(sel.storage, device)]
        ELSE [selected |-> FALSE, recommendation |-> list,
              channels |-> sel.channels, storage |-> sel.storage]

\* a frame that meets the end case (or selects nothing) returns the list
GcReturn ==
    /\ pc = "get_connectors"
    /\ \/ EndCase(Max0(channels), Max0(storage))
       \/ ~FrameBody(channels, storage, recommendation).selected
    /\ pc' = "returned"
    /\ channels' = Max0(channels)
    /\ storage' = Max0(storage)
    /\ UNCHANGED << caller, req_channels, req_storage, prior, recommendation,
                    depth, low_channels, high_channels, retention, change,
                    low_storage, high_storage, memory, stdout,
                    recommendation_text, runs, run_calc >>
    /\ UNCHANGED matchVars
    /\ UNCHANGED tableVars
    /\ UNCHANGED appVars

\* a frame that selects a connector and recurses
GcSelect ==
    /\ pc = "get_connectors"
    /\ ~EndCase(Max0(channels), Max0(storage))
    /\ depth < MaxDepth
    /\ LET f == FrameBody(channels, storage, recommendation)
       IN  /\ f.selected
           /\ recommendation' = f.recommendation
           /\ channels' = f.channels
           /\ storage' = f.storage
    /\ depth' = depth + 1
    /\ UNCHANGED << pc, caller, req_channels, req_storage, prior,
                    low_channels, high_channels, retention, change,
                    low_storage, high_storage, memory, stdout,
                    recommendation_text, runs, run_calc >>
    /\ UNCHANGED matchVars
    /\ UNCHANGED tableVars
    /\ UNCHANGED appVars

\* the recursive call that the interpreter refuses: RecursionError unwinds
\* every frame of get_connectors
GcRecursionError ==
    /\ pc = "get_connectors"
    /\ ~EndCase(Max0(channels), Max0(storage))
    /\ depth >= MaxDepth
    /\ LET f == FrameBody(channels, storage, recommendation)
       IN  /\ f.selected
           /\ recommendation' = f.recommendation
           /\ channels' = f.channels
           /\ storage' = f.storage
    /\ pc' = "raised"
    /\ UNCHANGED << caller, req_channels, req_storage, prior, depth,
                    low_channels, high_channels, retention, change,
                    low_storage, high_storage, memory, stdout,
                    recommendation_text, runs, run_calc >>
    /\ UNCHANGED matchVars
    /\ UNCHANGED tableVars
    /\ UNCHANGED appVars

\* arguments of the direct calls
ChannelInputs == -1 .. MaxChannels
StorageInputs == { h * 500 : h \in -1 .. MaxHalfTB }
\* the large values of the tests, beyond the two ranges
LargeValues == { << 100, TB(100) >> }
ArgumentPairs == (ChannelInputs \X StorageInputs) \cup LargeValues
PriorInputs ==
    { NoneList, Some(<< >>), Some(<< COMMAND_CONNECTORS[2] >>),
      Some(<< COMMAND_CONNECTORS[6], COMMAND_CONNECTORS[1] >>) }

\* mutant of InitialList: the call starts from an empty list
InitialListFresh(p) == << >>

\* "if recommendation is None: recommendation = []"
InitialList(p) == IF ~p.some THEN << >> ELSE p.value

\* get_connectors(channels, storage, recommendation), called directly
CallGetConnectors ==
    /\ pc = "idle"
    /\ \E args \in ArgumentPairs, p \in PriorInputs :
          /\ req_channels' = args[1]
          /\ req_storage' = args[2]
          /\ prior' = p
          /\ channels' = args[1]
          /\ storage' = args[2]
          /\ recommendation' = InitialList(p)
    /\ caller' = "test"
    /\ depth' = 1
    /\ pc' = "get_connectors"
    /\ UNCHANGED << low_channels, high_channels, retention, change,
                    low_storage, high_storage, memory, stdout,
                    recommendation_text, runs, run_calc >>
    /\ UNCHANGED matchVars
    /\ UNCHANGED tableVars
    /\ UNCHANGED appVars

-----------------------------------------------------------------------------
(* Storage formulas, in thousandths of a terabyte *)

calculate_low_mp_storage(n, days) ==
    IF days <= 30 THEN n * 256
    ELSE IF days <= 60 THEN n * 512
    ELSE IF days <= 90 THEN n * 768 * 90
    ELSE 0

calculate_4k_storage(n, days) ==
    IF days <= 30 THEN n * 512 * 30
    ELSE IF days <= 60 THEN n * 1024 * 60
    ELSE IF days <= 90 THEN n * 2048 * 90
    ELSE 0

-----------------------------------------------------------------------------
(* recommend_connectors, recommend_connector, MemoryStorage *)

has_recommendations(m) == m.recommendations.some

has_excess_channels(m) == m.excess_channels.some

\* mutant of RunCalc: an empty stored list counts as no recommendation
RunCalcTruthy(m, chg) ==
    ~(m.recommendations.some /\ m.recommendations.value # << >>) \/ chg

\* run_calc of recommend_connectors
RunCalc(m, chg) ==
    (~has_recommendations(m) /\ ~has_excess_channels(m)) \/ chg

\* mutant of TotalRequiredChannels: a high channel weighs one channel
TotalRequiredChannelsUnweighted(low, high) == low + high

\* total_required_channels of recommend_connector
TotalRequiredChannels(low, high) == low + high * 2

\* the excess channels of a recommendation
calculate_excess_channels(total, list) == SumLowChannels(list) - total

MaxDepthMessage == "Max depth exceeded. Exiting..."

\* the retention arguments tried
RetentionInputs == {30, 60, 90, 91}

\* recommend_connectors(change, retention, ...) up to the call of
\* get_connectors; low and high are what count_mp returns
RecommendConnectors ==
    /\ pc \in {"idle", "displayed"}
    /\ runs < MaxRuns
    /\ \E chg \in BOOLEAN, days \in RetentionInputs,
          low \in 0 .. MaxLow, high \in 0 .. MaxHigh :
          /\ change' = chg
          /\ retention' = days
          /\ run_calc' = RunCalc(memory, chg)
          /\ IF RunCalc(memory, chg)
             THEN LET total_storage == calculate_low_mp_storage(low, days)
                                       + calculate_4k_storage(high, days)
                      total == TotalRequiredChannels(low, high)
                  IN  /\ low_channels' = low
                      /\ high_channels' = high
                      /\ low_storage' = calculate_low_mp_storage(low, days)
                      /\ high_storage' = calculate_4k_storage(high, days)
                      /\ req_channels' = total
                      /\ req_storage' = total_storage
                      /\ channels' = total
                      /\ storage' = total_storage
                      /\ prior' = NoneList
                      /\ recommendation' = InitialList(NoneList)
                      /\ depth' = 1
                      /\ pc' = "get_connectors"
             ELSE /\ pc' = "recommended"
                  /\ UNCHANGED << low_channels, high_channels, low_storage,
                                  high_storage, req_channels, req_storage,
                                  channels, storage, prior, recommendation,
                                  depth >>
    /\ caller' = "recommend_connector"
    /\ stdout' = ""
    /\ runs' = runs + 1
    /\ UNCHANGED << memory, recommendation_text >>
    /\ UNCHANGED matchVars
    /\ UNCHANGED tableVars
    /\ UNCHANGED appVars

\* recommend_connector after get_connectors returned or raised
\* RecursionError: the except clause, the excess channels, the two setters
RecommendConnectorStore ==
    /\ pc \in {"returned", "raised"}
    /\ caller = "recommend_connector"
    /\ LET recommendations == IF pc = "raised" THEN << >> ELSE recommendation
           excess_channels ==
               calculate_excess_channels(
                   TotalRequiredChannels(low_channels, high_channels),
                   recommendations)
       IN  memory' = [recommendations |-> Some(recommendations),
                      excess_channels |-> Some(excess_channels)]
    /\ stdout' = IF pc = "raised" THEN MaxDepthMessage ELSE stdout
    /\ pc' = "recommended"
    /\ UNCHANGED << caller, req_channels, req_storage, prior, channels,
                    storage, recommendation, depth, low_channels,
                    high_channels, retention, change, low_storage,
                    high_storage, recommendation_text, runs, run_calc >>
    /\ UNCHANGED matchVars
    /\ UNCHANGED tableVars
    /\ UNCHANGED appVars

NoRecommendationsText ==
    [text |-> "No recommendations available.", names |-> << >>, excess |-> 0]

\* "if recommendations:": neither None nor an empty list
Truthy(opt) == opt.some /\ opt.value # << >>

\* what _perform_recommendations inserts in the text widget
RecommendationText(m) ==
    IF Truthy(m.recommendations)
    THEN [text |-> "Recommended Command Connectors:",
          names |-> [i \in 1 .. Len(m.recommendations.value) |->
                        m.recommendations.value[i].name],
          excess |-> m.excess_channels.value]
    ELSE NoRecommendationsText

\* _perform_recommendations after recommend_connectors returned
PerformRecommendationsDisplay ==
    /\ pc = "recommended"
    /\ recommendation_text' = RecommendationText(memory)
    /\ pc' = "displayed"
    /\ UNCHANGED << caller, req_channels, req_storage, prior, channels,
                    storage, recommendation, depth, low_channels,
                    high_channels, retention, change, low_storage,
                    high_storage, memory, stdout, runs, run_calc >>
    /\ UNCHANGED matchVars
    /\ UNCHANGED tableVars
    /\ UNCHANGED appVars

-----------------------------------------------------------------------------
(* get_camera_match.match_camera *)

\* the catalog names (get_camera_set of the compatibility list)
Catalog == {"axis p3245", "p3245 axiz"}

\* the values a scorer of thefuzz takes in the model, out of 0 .. 100
ScoreValues == {0, 79, 80, 81, 99, 100}

\* the iteration orders of the catalog name set
Orders == { o \in [1 .. Cardinality(Catalog) -> Catalog] :
               \A i, j \in DOMAIN o : i # j => o[i] # o[j] }

\* the cells of the model column: NaN, the empty string, a name
Cells == { [isna |-> TRUE, text |-> ""],
           [isna |-> FALSE, text |-> ""],
           [isna |-> FALSE, text |-> "p3245 axis"] }

NoneStr == [some |-> FALSE, value |-> ""]

\* colorama's Fore.<color> ... Style.RESET_ALL around a word
Colored(color, word) == "<" \o color \o ">" \o word \o "<RESET>"

MatchExact == Colored("GREEN", "exact")
MatchIdentified == Colored("CYAN", "identified")
MatchPotential == Colored("YELLOW", "potential")
MatchUnsupported == Colored("RED", "unsupported")
MatchEmpty == "empty"

\* process.extractOne(camera, names, scorer): the first name, in iteration
\* order, with the greatest score
RECURSIVE ExtractFrom(_, _, _, _)
ExtractFrom(values, order, i, best) ==
    IF i > Len(order) THEN best
    ELSE ExtractFrom(values, order, i + 1,
                     IF best.match = "" \/ values[order[i]] > best.score
                     THEN [match |-> order[i], score |-> values[order[i]]]
                     ELSE best)

extractOne(values, order) ==
    ExtractFrom(values, order, 1, [match |-> "", score |-> 0])

\* mutant of PotentialBand: the cutoff itself is excluded
PotentialBandStrict(score) == score > 80

\* "if score >= 80"
PotentialBand(score) == score >= 80

\* mutant of IsBlank: only NaN counts as blank
IsBlankNaN(cell) == cell.isna

\* "if pd.isna(camera) or camera == ''"
IsBlank(cell) == cell.isna \/ cell.text = ""

\* match_camera(camera), sc the scorers' values against every catalog name
match_camera(cell, sc, order) ==
    IF IsBlank(cell)
    THEN [name |-> NoneStr, match_type |-> MatchEmpty,
          verkada_model |-> NoneStr]
    ELSE LET best == extractOne(sc.ratio, order)
             match == best.match
             score == best.score
             sort_score == extractOne(sc.sort, order).score
             set_score == extractOne(sc.set, order).score
         IN  IF score = 100 \/ sort_score = 100
             THEN [name |-> Some(cell.text), match_type |-> MatchExact,
                   verkada_model |-> Some(match)]
             ELSE IF set_score = 100
             THEN [name |-> Some(cell.text), match_type |-> MatchIdentified,
                   verkada_model |-> Some(match)]
             ELSE IF PotentialBand(score)
             THEN [name |-> Some(cell.text), match_type |-> MatchPotential,
                   verkada_model |-> Some(match)]
             ELSE [name |-> Some(cell.text), match_type |-> MatchUnsupported,
                   verkada_model |-> NoneStr]

\* model_data.apply(match_camera) on one cell
MatchCamera ==
    /\ pc = "idle"
    /\ \E cell \in Cells, order \in Orders,
          r \in [Catalog -> ScoreValues], so \in [Catalog -> ScoreValues],
          se \in [Catalog -> ScoreValues] :
          /\ camera' = cell
          /\ iter_order' = order
          /\ scores' = [ratio |-> r, sort |-> so, set |-> se]
          /\ result' = match_camera(cell, [ratio |-> r, sort |-> so, set |-> se],
                                    order)
    /\ pc' = "matched"
    /\ UNCHANGED << caller, req_channels, req_storage, prior, channels,
                    storage, recommendation, depth, low_channels,
                    high_channels, retention, change, low_storage,
                    high_storage, memory, stdout, recommendation_text, runs,
                    run_calc >>
    /\ UNCHANGED tableVars
    /\ UNCHANGED appVars

-----------------------------------------------------------------------------
(* The customer table and the catalog of get_camera_match *)

\* a column label: an integer (a table built without a header row) or a
\* string, kept as its maximal runs of word characters and the single
\* characters between them ("Camera Count" is "Camera", " ", "Count")
IntLabel(n) == [isstr |-> FALSE, num |-> n, words |-> << >>]
StrLabel(w) == [isstr |-> TRUE, num |-> 0, words |-> w]

\* the labels of the tables of the model, column by column
LabelSeqs ==
    { << >>,
      << IntLabel(0) >>,
      << IntLabel(0), IntLabel(1) >>,
      << StrLabel(<< "Model" >>) >>,
      << StrLabel(<< "Model" >>), StrLabel(<< "Camera", " ", "Count" >>) >>,
      << StrLabel(<< "count" >>), StrLabel(<< "Model" >>) >>,
      << StrLabel(<< "count" >>), IntLabel(1) >>,
      << StrLabel(<< "QUANTITY" >>), StrLabel(<< "Qty", " ", "#" >>) >>,
      << IntLabel(1), StrLabel(<< "Qty", " ", "#" >>) >>,
      << IntLabel(0), StrLabel(<< "Quantity" >>) >>,
      << StrLabel(<< "Counts" >>), StrLabel(<< "Discount" >>) >>,
      << StrLabel(<< "1" >>), StrLabel(<< "Model" >>) >>,
      << StrLabel(<< "Model" >>), StrLabel(<< "count_1" >>) >>,
      << StrLabel(<< "Serial" >>), StrLabel(<< "Model" >>) >> }

\* the cells of the tables: NaN and the strings "", "CC1", "CC12", "2"
NaN == [isna |-> TRUE, text |-> ""]
Str(t) == [isna |-> FALSE, text |-> t]
TableCells == { NaN, Str(""), Str("CC1"), Str("CC12"), Str("2") }

\* the cells of the columns after the first one
OtherCells == { NaN, Str("CC1"), Str("2") }

Column(label, values) == [label |-> label, values |-> values]

\* the tables with the given labels and n rows, column by column
TablesOf(labs, n) ==
    IF Len(labs) = 0 THEN { << >> }
    ELSE IF Len(labs) = 1
    THEN { << Column(labs[1], v) >> : v \in [1 .. n -> TableCells] }
    ELSE { << Column(labs[1], v), Column(labs[2], w) >> :
             v \in [1 .. n -> TableCells], w \in [1 .. n -> OtherCells] }

\* the model names of the compatibility lists of the model
Catalogs == { << "cc1" >>, << "cc1", "cc2" >> }

\* get_camera_set: the names as a set
get_camera_set(verkada_list) == { verkada_list[i] : i \in DOMAIN verkada_list }

\* the orders in which a set of names can be iterated; which one it is
\* depends on the string hashes of the interpreter process
SetOrders(names) ==
    { o \in [1 .. Cardinality(names) -> names] :
        \A i, j \in DOMAIN o : i # j => o[i] # o[j] }

\* thefuzz ratio of a cell text against a catalog name, after the default
\* processor lowercased both: 100 * 2 * (longest common subsequence) /
\* (sum of the lengths), rounded
fuzz_ratio(text, name) ==
    CASE text = "CC1" /\ name = "cc1" -> 100
      [] text = "CC1" /\ name = "cc2" -> 67
      [] text = "CC12" /\ name = "cc1" -> 86
      [] text = "CC12" /\ name = "cc2" -> 86
      [] text = "2" /\ name = "cc2" -> 50
      [] OTHER -> 0

\* token_sort_ratio and token_set_ratio of a single-token text against a
\* single-token name are the ratio of the two tokens
fuzz_token_sort_ratio(text, name) == fuzz_ratio(text, name)
fuzz_token_set_ratio(text, name) == fuzz_ratio(text, name)

\* the three scorers' values of a text against every name
ScoresOf(text, names) ==
    [ratio |-> [n \in names |-> fuzz_ratio(text, n)],
     sort |-> [n \in names |-> fuzz_token_sort_ratio(text, n)],
     set |-> [n \in names |-> fuzz_token_set_ratio(text, n)]]

-----------------------------------------------------------------------------
(* identify_model_column *)

\* pd.to_numeric(text, errors="coerce"): the number, or None (NaN)
to_numeric(text) == IF text = "2" THEN Some(2) ELSE NoneInt

\* the score of a cell text: extractOne(..., scorer=token_sort_ratio)[1]
BestSortScore(text, order) ==
    extractOne(ScoresOf(text, { order[i] : i \in DOMAIN order }).sort, order).score

\* "for camera in column_data.dropna()": every distinct non-empty string
\* is scored once
RECURSIVE ScoreLoop(_, _, _, _, _)
ScoreLoop(values, i, column_values, column_score, order) ==
    IF i > Len(values) THEN column_score
    ELSE LET value == values[i]
         IN  IF ~value.isna /\ value.text # ""
                /\ value.text \notin column_values
             THEN ScoreLoop(values, i + 1, column_values \cup {value.text},
                            column_score + BestSortScore(value.text, order),
                            order)
             ELSE ScoreLoop(values, i + 1, column_values, column_score, order)

\* calculate_score returns 0 for a column that is empty after cleaning or
\* whose cleaned values all convert to numbers
ForcedZero(cleaned_data) ==
    \/ cleaned_data = << >>
    \/ \A i \in DOMAIN cleaned_data : to_numeric(cleaned_data[i].text).some

calculate_score(column_data, order) ==
    LET cleaned_data ==
            SelectSeq(column_data,
                      LAMBDA c : ~c.isna /\ c.text \notin {"", " "})
    IN  IF ForcedZero(cleaned_data) THEN 0
        ELSE ScoreLoop(column_data, 1, {}, 0, order)

\* the greatest element of a non-empty set of numbers
SetMax(S) == CHOOSE v \in S : \A w \in S : w <= v
SetMin(S) == CHOOSE v \in S : \A w \in S : v <= w

\* the value of the digits of a numeric label
DigitValue(w) == CASE w = "0" -> 0 [] w = "1" -> 1 [] w = "2" -> 2

\* int(label): None stands for ValueError
IntOfLabel(label) ==
    IF ~label.isstr THEN Some(label.num)
    ELSE IF Len(label.words) = 1 /\ label.words[1] \in {"0", "1", "2"}
    THEN Some(DigitValue(label.words[1]))
    ELSE NoneInt

\* identify_model_column: raised is the exception that left it, "" if none
identify_model_column(frame, order) ==
    LET column_scores == [c \in DOMAIN frame |->
                     calculate_score(frame[c].values, order)]
    IN  IF DOMAIN frame # {}
           /\ SetMax({ column_scores[c] : c \in DOMAIN frame }) > 0
        THEN LET m == SetMax({ column_scores[c] : c \in DOMAIN frame })
                 idxmax == SetMin({ c \in DOMAIN frame : column_scores[c] = m })
                 column == IntOfLabel(frame[idxmax].label)
             IN  IF column.some
                 THEN [raised |-> "", column |-> column]
                 ELSE [raised |-> "ValueError", column |-> NoneInt]
        ELSE [raised |-> "", column |-> NoneInt]

-----------------------------------------------------------------------------
(* identify_count_column *)

\* str.lower() of the words of the labels
Lower(w) ==
    CASE w = "Count" -> "count"
      [] w = "Counts" -> "counts"
      [] w = "Discount" -> "discount"
      [] w = "QUANTITY" -> "quantity"
      [] w = "Quantity" -> "quantity"
      [] w = "Camera" -> "value"
      [] w = "Model" -> "model"
      [] w = "Qty" -> "qty"
      [] w = "Serial" -> "serial"
      [] OTHER -> w

\* mutant of count_column_pattern: the case of the header matters
count_column_pattern_cased(words) ==
    \E i \in DOMAIN words : words[i] \in {"count", "quantity", "#"}

\* count_column_pattern.search(col) for (?i)\bcount\b|#|\bquantity\b: some
\* maximal run of word characters is "count" or "quantity" in any case, or
\* some character is "#"
count_column_pattern(words) ==
    \E i \in DOMAIN words : Lower(words[i]) \in {"count", "quantity", "#"}

\* the first matching position, counted from 0 as enumerate does
identify_count_column(frame) ==
    LET hits == { c \in DOMAIN frame :
                    /\ frame[c].label.isstr
                    /\ count_column_pattern(frame[c].label.words) }
    IN  IF hits = {} THEN NoneInt ELSE Some(SetMin(hits) - 1)

-----------------------------------------------------------------------------
(* get_camera_count and get_camera_match *)

\* the count column of a result row: not set yet, a number, or the cell
\* copied from the customer table (a string or NaN)
NoCount == [kind |-> "unset", num |-> 0, text |-> ""]
CountInt(n) == [kind |-> "int", num |-> n, text |-> ""]
CountCell(cell) ==
    IF cell.isna THEN [kind |-> "nan", num |-> 0, text |-> ""]
    ELSE [kind |-> "str", num |-> 0, text |-> cell.text]

\* customer_list[key]: the column whose label equals the integer key; None
\* stands for KeyError
LabelLookup(frame, key) ==
    LET found == { c \in DOMAIN frame :
                     /\ key.some
                     /\ ~frame[c].label.isstr
                     /\ frame[c].label.num = key.value }
    IN  IF found = {} THEN NoneInt ELSE Some(SetMin(found))

\* the rows of a frame at the kept positions, in order
RECURSIVE RowsAt(_, _, _)
RowsAt(rows, keep, i) ==
    IF i > Len(rows) THEN << >>
    ELSE IF i \in keep THEN << rows[i] >> \o RowsAt(rows, keep, i + 1)
    ELSE RowsAt(rows, keep, i + 1)

\* model_data.apply(match_camera)
ApplyMatchCamera(model_data, order) ==
    [r \in DOMAIN model_data |->
        LET m == match_camera(model_data[r],
                              ScoresOf(model_data[r].text,
                                       { order[i] : i \in DOMAIN order }),
                              order)
        IN  [name |-> m.name, match_type |-> m.match_type,
             verkada_model |-> m.verkada_model, count |-> NoCount]]

\* "if count_column_name := identify_count_column(customer_list)": None
\* and 0 are both false
CountColumnTaken(found) ==
    found.some /\ found.value # 0

\* results.groupby("name")["name"].transform("count"): rows without a name
\* belong to no group
GroupCount(rows, r) ==
    IF rows[r].name.some
    THEN CountInt(Cardinality({ q \in DOMAIN rows :
                                  rows[q].name = rows[r].name }))
    ELSE CountCell(NaN)

\* mutant of FirstOfName: every row is kept
FirstOfNameAll(rows, r) == TRUE

\* results.drop_duplicates(["name"]): the first row of every name stays
FirstOfName(rows, r) ==
    \A q \in DOMAIN rows : q < r => rows[q].name # rows[r].name

\* get_camera_count; raised is the exception that left it, "" if none
get_camera_count(frame, rows) ==
    LET found == identify_count_column(frame)
        column == LabelLookup(frame, found)
    IN  IF CountColumnTaken(found) /\ ~column.some
        THEN [raised |-> "KeyError", results |-> rows]
        ELSE LET counted ==
                   [r \in DOMAIN rows |->
                      [rows[r] EXCEPT !.count =
                         IF CountColumnTaken(found)
                         THEN CountCell(frame[column.value].values[r])
                         ELSE GroupCount(rows, r)]]
                 keep == { r \in DOMAIN counted :
                             /\ FirstOfName(counted, r)
                             /\ \/ counted[r].name.some
                                \/ counted[r].match_type # MatchEmpty }
             IN  [raised |-> "", results |-> RowsAt(counted, keep, 1)]

-----------------------------------------------------------------------------
(* sanitize_customer_data *)

\* integer_pattern ^[-+]?\d+$ on a word
integer_pattern(word) == word = "2"

\* ip_pattern and mac_pattern on a word
ip_pattern(word) == word = "192.168.1.1"
mac_pattern(word) == word = "00:1A:2B:3C:4D:5E"

\* fillna(''), str.strip() and remove_keywords on a cell of one word: the
\* word goes when it is an integer, an IP address or a MAC address (the
\* names of the model are no English words, manufacturers or special
\* characters)
SanitizeCell(cell) ==
    IF \/ cell.isna
       \/ integer_pattern(cell.text)
       \/ ip_pattern(cell.text)
       \/ mac_pattern(cell.text)
    THEN Str("") ELSE cell

\* "sanitized_df[column].str.match(ip_pattern).any() or
\* sanitized_df[column].str.match(mac_pattern).any()"
AddressColumn(col) ==
    \E r \in DOMAIN col.values :
        ip_pattern(col.values[r].text) \/ mac_pattern(col.values[r].text)

\* "any(term in col.upper() for term in ['SERIAL', 'SN', 'S/N'])"
SerialHeader(label) ==
    \E i \in DOMAIN label.words : Lower(label.words[i]) = "serial"

sanitize_customer_data(frame) ==
    LET sanitized_df ==
            [c \in DOMAIN frame |->
               [label |-> frame[c].label,
                values |-> [r \in DOMAIN frame[c].values |->
                              SanitizeCell(frame[c].values[r])]]]
    IN  SelectSeq(sanitized_df,
                  LAMBDA col : ~AddressColumn(col) /\ ~SerialHeader(col.label))

-----------------------------------------------------------------------------
(* get_camera_match, step by step *)

\* the table and the catalog get_camera_match is called with
StartMatch(table, entered) ==
    /\ \E cat \in Catalogs :
          /\ verkada_cameras' = cat
          /\ set_order' \in SetOrders(get_camera_set(cat))
    /\ customer_list' = table
    /\ entry' = entered
    /\ match_runs' = 1
    /\ pc' = "identify_model_column"
    /\ UNCHANGED << camera_column, results, raised, previous,
                    count_column_name >>
    /\ UNCHANGED recState
    /\ UNCHANGED matchVars
    /\ UNCHANGED appVars

\* get_camera_match called on a table built by the caller
CallGetCameraMatch ==
    /\ pc = "idle"
    /\ \E labs \in LabelSeqs, n \in 0 .. MaxRows :
          \E table \in TablesOf(labs, n) : StartMatch(table, "direct")

\* run_check: parse_customer_list reads the header row as string labels,
\* sanitize_customer_data cleans the table, get_camera_match gets the result
RunCheck ==
    /\ pc = "idle"
    /\ \E labs \in LabelSeqs, n \in 0 .. MaxRows :
          /\ \A c \in DOMAIN labs : labs[c].isstr
          /\ \E table \in TablesOf(labs, n) :
                StartMatch(sanitize_customer_data(table), "run_check")

\* camera_column = identify_model_column(customer_list, verkada_cameras)
IdentifyModelColumn ==
    /\ pc = "identify_model_column"
    /\ LET r == identify_model_column(customer_list, set_order)
       IN  /\ raised' = r.raised
           /\ camera_column' = r.column
           /\ pc' = IF r.raised # "" THEN "match_raised"
                    ELSE "apply_match_camera"
    /\ UNCHANGED << customer_list, verkada_cameras, set_order, entry, results,
                    match_runs, previous, count_column_name >>
    /\ UNCHANGED recState
    /\ UNCHANGED matchVars
    /\ UNCHANGED appVars

\* model_data = customer_list[camera_column]; model_data.apply(match_camera)
ApplyMatch ==
    /\ pc = "apply_match_camera"
    /\ LET column == LabelLookup(customer_list, camera_column)
       IN  IF column.some
           THEN /\ results' = ApplyMatchCamera(customer_list[column.value].values,
                                               set_order)
                /\ pc' = "get_camera_count"
                /\ UNCHANGED raised
           ELSE /\ raised' = "KeyError"
                /\ pc' = "match_raised"
                /\ UNCHANGED results
    /\ UNCHANGED << customer_list, verkada_cameras, set_order, entry,
                    camera_column, match_runs, previous, count_column_name >>
    /\ UNCHANGED recState
    /\ UNCHANGED matchVars
    /\ UNCHANGED appVars

\* result = get_camera_count(customer_list, result); return result
GetCameraCount ==
    /\ pc = "get_camera_count"
    /\ LET r == get_camera_count(customer_list, results)
       IN  /\ raised' = r.raised
           /\ results' = r.results
           /\ count_column_name' = identify_count_column(customer_list)
           /\ pc' = IF r.raised # "" THEN "match_raised" ELSE "match_returned"
    /\ UNCHANGED << customer_list, verkada_cameras, set_order, entry,
                    camera_column, match_runs, previous >>
    /\ UNCHANGED recState
    /\ UNCHANGED matchVars
    /\ UNCHANGED appVars

\* get_camera_match run a second time on the same table and catalog; the
\* name set is built again, in the order the running interpreter gives it
\* (the same order within one process, any order in a new process)
GetCameraMatchAgain ==
    /\ pc = "match_returned"
    /\ match_runs = 1
    /\ previous' = [results |-> results, set_order |-> set_order]
    /\ set_order' \in SetOrders(get_camera_set(verkada_cameras))
    /\ match_runs' = 2
    /\ camera_column' = NoneInt
    /\ results' = << >>
    /\ pc' = "identify_model_column"
    /\ UNCHANGED << customer_list, verkada_cameras, entry, raised,
                    count_column_name >>
    /\ UNCHANGED recState
    /\ UNCHANGED matchVars
    /\ UNCHANGED appVars

-----------------------------------------------------------------------------
(* identify_count_column, called on the header row of a table *)

\* the column labels of the header rows of the model
Headers ==
    { IntLabel(0), IntLabel(1),
      StrLabel(<< "Model" >>), StrLabel(<< "Camera", " ", "Count" >>),
      StrLabel(<< "count" >>), StrLabel(<< "QUANTITY" >>),
      StrLabel(<< "Quantity" >>), StrLabel(<< "Qty", " ", "#" >>),
      StrLabel(<< "Counts" >>), StrLabel(<< "Discount" >>),
      StrLabel(<< "count_1" >>), StrLabel(<< "1" >>),
      StrLabel(<< "Serial" >>) }

HeaderRows == UNION { [1 .. n -> Headers] : n \in 0 .. MaxColumns }

\* identify_count_column(customer_list) on a table with the given header row
IdentifyCountColumn ==
    /\ pc = "idle"
    /\ \E labs \in HeaderRows :
          LET table == [c \in DOMAIN labs |-> Column(labs[c], << >>)]
          IN  /\ customer_list' = table
              /\ count_column_name' = identify_count_column(table)
    /\ entry' = "identify_count_column"
    /\ pc' = "count_column_identified"
    /\ UNCHANGED << verkada_cameras, set_order, camera_column, results,
                    raised, match_runs, previous >>
    /\ UNCHANGED recState
    /\ UNCHANGED matchVars
    /\ UNCHANGED appVars

InitTable ==
    /\ customer_list = << >>
    /\ verkada_cameras = << >>
    /\ set_order = << >>
    /\ entry = "none"
    /\ camera_column = NoneInt
    /\ results = << >>
    /\ raised = ""
    /\ match_runs = 0
    /\ previous = [results |-> << >>, set_order |-> << >>]
    /\ count_column_name = NoneInt

-----------------------------------------------------------------------------
(* print_results *)

\* colorama's AnsiFore codes: Fore.RED is ESC [ 3 1 m, and so on
AnsiFore(color) ==
    CASE color = "RED" -> 31
      [] color = "GREEN" -> 32
      [] color = "YELLOW" -> 33
      [] color = "CYAN" -> 36

\* where a match type stands in Python's order of strings: the coloured ones
\* differ first in the digits of their colour code, and "empty" begins with
\* a letter, which is above ESC
StringRank(match_type) ==
    CASE match_type = MatchExact -> AnsiFore("GREEN")
      [] match_type = MatchIdentified -> AnsiFore("CYAN")
      [] match_type = MatchPotential -> AnsiFore("YELLOW")
      [] match_type = MatchUnsupported -> AnsiFore("RED")
      [] OTHER -> 101

\* the row print_results builds of a result row, without the catalog details
OutputRow(row) ==
    [camera_name |-> row.name.value, camera_count |-> row.count.num,
     match_type |-> row.match_type]

\* list.sort is stable: a row goes behind every row whose key is not above
\* its own
RECURSIVE InsertByKey(_, _)
InsertByKey(row, sorted) ==
    IF sorted = << >> THEN << row >>
    ELSE IF StringRank(sorted[Len(sorted)].match_type) <= StringRank(row.match_type)
    THEN Append(sorted, row)
    ELSE Append(InsertByKey(row, SubSeq(sorted, 1, Len(sorted) - 1)),
                sorted[Len(sorted)])

\* output.sort(key=lambda x: x[2], reverse=False)
RECURSIVE SortOutput(_)
SortOutput(rows) ==
    IF rows = << >> THEN << >>
    ELSE InsertByKey(rows[Len(rows)], SortOutput(SubSeq(rows, 1, Len(rows) - 1)))

\* the names and match types of the result frames of the model
ResultNames == {"cam a", "cam b", "cam c", "cam d"}
ResultTypes == {MatchExact, MatchIdentified, MatchPotential, MatchUnsupported}

\* a result frame as get_camera_match returns it: one row for each name
ResultFrame(names, types) ==
    [i \in DOMAIN names |->
        [name |-> Some(names[i]), match_type |-> types[i],
         verkada_model |-> IF types[i] = MatchUnsupported THEN NoneStr
                           ELSE Some("cc1"),
         count |-> CountInt(1)]]

\* print_results(results, ...) with nothing kept in memory yet
PrintResults ==
    /\ pc = "idle"
    /\ \E n \in 0 .. MaxResults :
         \E names \in [1 .. n -> ResultNames], types \in [1 .. n -> ResultTypes] :
            /\ \A i, j \in 1 .. n : names[i] = names[j] => i = j
            /\ results' = ResultFrame(names, types)
            /\ output' = SortOutput([i \in 1 .. n |->
                                       OutputRow(ResultFrame(names, types)[i])])
    /\ entry' = "print_results"
    /\ pc' = "printed"
    /\ UNCHANGED << customer_list, verkada_cameras, set_order, camera_column,
                    raised, match_runs, previous, count_column_name >>
    /\ UNCHANGED << raw_list, camera_mp, mp_counts >>
    /\ UNCHANGED flagVars
    /\ UNCHANGED dbVars
    /\ UNCHANGED recState
    /\ UNCHANGED matchVars

-----------------------------------------------------------------------------
(* sanitize_customer_data, called on a table as parse_customer_list reads it *)

\* the header rows of the raw tables
RawLabels ==
    { << StrLabel(<< "Model" >>) >>,
      << StrLabel(<< "Model" >>), StrLabel(<< "IP", " ", "Address" >>) >>,
      << StrLabel(<< "MAC" >>), StrLabel(<< "Model" >>) >>,
      << StrLabel(<< "Serial" >>), StrLabel(<< "Model" >>) >> }

\* the cells of the raw tables
RawCells ==
    { NaN, Str("CC1"), Str("2"), Str("192.168.1.1"), Str("00:1A:2B:3C:4D:5E") }

RawTablesOf(labs, n) ==
    IF Len(labs) = 1
    THEN { << Column(labs[1], v) >> : v \in [1 .. n -> RawCells] }
    ELSE { << Column(labs[1], v), Column(labs[2], w) >> :
             v \in [1 .. n -> RawCells], w \in [1 .. n -> RawCells] }

\* sanitize_customer_data(customer_list, dictionary)
SanitizeCustomerData ==
    /\ pc = "idle"
    /\ \E labs \in RawLabels, n \in 0 .. MaxRows :
         \E table \in RawTablesOf(labs, n) :
            /\ raw_list' = table
            /\ customer_list' = sanitize_customer_data(table)
    /\ entry' = "sanitize_customer_data"
    /\ pc' = "sanitized"
    /\ UNCHANGED << verkada_cameras, set_order, camera_column, results,
                    raised, match_runs, previous, count_column_name >>
    /\ UNCHANGED << output, camera_mp, mp_counts >>
    /\ UNCHANGED flagVars
    /\ UNCHANGED dbVars
    /\ UNCHANGED recState
    /\ UNCHANGED matchVars

-----------------------------------------------------------------------------
(* count_mp *)

\* the compatibility list count_mp is given: model names with the megapixels
\* compile_camera_mp_channels added up for them
MpValues == {2, 5, 8}
CompatibleModels ==
    { << [model_name |-> "cc1", mp |-> a], [model_name |-> "cc2", mp |-> b] >> :
        a \in MpValues, b \in MpValues }

\* find_verkada_camera(name, verkada_camera_list): the model of that name
find_verkada_camera(name, verkada_list) ==
    LET found == { i \in DOMAIN verkada_list : verkada_list[i].model_name = name }
    IN  IF found = {} THEN NoneInt ELSE Some(SetMin(found))

\* mutant of LowMp: five megapixels count as high
LowMpBelow(mp) == mp < 5

\* "if camera_model.mp <= 5"
LowMp(mp) == mp <= 5

\* the loop of count_mp from row i on, with the counts so far
RECURSIVE CountLoop(_, _, _, _)
CountLoop(rows, verkada_list, i, counts) ==
    IF i > Len(rows) THEN counts
    ELSE LET row == rows[i]
             camera_model == find_verkada_camera(row.verkada_model.value,
                                                 verkada_list)
         IN  IF row.verkada_model.some /\ camera_model.some
             THEN IF LowMp(verkada_list[camera_model.value].mp)
                  THEN CountLoop(rows, verkada_list, i + 1,
                                 << counts[1] + row.count.num, counts[2] >>)
                  ELSE CountLoop(rows, verkada_list, i + 1,
                                 << counts[1], counts[2] + row.count.num >>)
             ELSE CountLoop(rows, verkada_list, i + 1, counts)

count_mp(rows, verkada_list) == CountLoop(rows, verkada_list, 1, << 0, 0 >>)

\* the rows of the result frames given to count_mp: a match type with the
\* model matched, and a count
MatchedKinds ==
    { [match_type |-> MatchExact, verkada_model |-> Some("cc1")],
      [match_type |-> MatchIdentified, verkada_model |-> Some("cc2")],
      [match_type |-> MatchPotential, verkada_model |-> Some("cc1")],
      [match_type |-> MatchUnsupported, verkada_model |-> NoneStr] }
CountValues == {1, 2}
RowNames == << "cam a", "cam b", "cam c", "cam d", "cam e" >>

\* count_mp(camera_dataframe, verkada_camera_list)
CountMp ==
    /\ pc = "idle"
    /\ \E n \in 0 .. MaxResults, verkada_list \in CompatibleModels :
         \E kinds \in [1 .. n -> MatchedKinds], nums \in [1 .. n -> CountValues] :
            LET frame == [i \in 1 .. n |->
                            [name |-> Some(RowNames[i]),
                             match_type |-> kinds[i].match_type,
                             verkada_model |-> kinds[i].verkada_model,
                             count |-> CountInt(nums[i])]]
            IN  /\ results' = frame
                /\ camera_mp' = verkada_list
                /\ mp_counts' = count_mp(frame, verkada_list)
    /\ entry' = "count_mp"
    /\ pc' = "counted"
    /\ UNCHANGED << customer_list, verkada_cameras, set_order, camera_column,
                    raised, match_runs, previous, count_column_name >>
    /\ UNCHANGED << output, raw_list >>
    /\ UNCHANGED flagVars
    /\ UNCHANGED dbVars
    /\ UNCHANGED recState
    /\ UNCHANGED matchVars

-----------------------------------------------------------------------------
(* CameraCompatibilityApp: the change flag *)

\* the files a user selects or drops
FilePaths == {"a.csv", "b.csv"}

\* toggle_change: "self.change_detected_flag = not self.change_detected_flag"
toggle_change(flag) == ~flag

\* what the application's other variables do during an event of the window
AppFrame ==
    /\ pc = "idle"
    /\ app_events < MaxEvents
    /\ app_events' = app_events + 1
    /\ UNCHANGED << output, raw_list, camera_mp, mp_counts >>
    /\ UNCHANGED dbVars
    /\ UNCHANGED recVars
    /\ UNCHANGED matchVars
    /\ UNCHANGED tableVars

\* _update_file_selection
UpdateFileSelection(file_selection) ==
    /\ customer_file_path' = Some(file_selection)
    /\ run_button' = "normal"

\* on_drop: change_detected, then _update_file_selection
OnDrop ==
    /\ AppFrame
    /\ change_detected_flag' = TRUE
    /\ \E data \in FilePaths : UpdateFileSelection(data)
    /\ change_pending' = TRUE
    /\ UNCHANGED last_check

\* select_file: change_detected, then the file dialog, which the user may
\* cancel
SelectFile ==
    /\ AppFrame
    /\ change_detected_flag' = TRUE
    /\ \/ \E file_path \in FilePaths : UpdateFileSelection(file_path)
       \/ UNCHANGED << customer_file_path, run_button >>
    /\ change_pending' = TRUE
    /\ UNCHANGED last_check

\* the retention spinbox: command=self.change_detected
RetentionSpinbox ==
    /\ AppFrame
    /\ change_detected_flag' = TRUE
    /\ change_pending' = TRUE
    /\ UNCHANGED << customer_file_path, run_button, last_check >>

\* the ways run_check ends: the two returns before the work, the end of the
\* method (after the work or after a caught FileNotFoundError or
\* EmptyDataError), and an exception run_check does not catch
CheckOutcomes ==
    IF ~customer_file_path.some \/ customer_file_path.value = ""
    THEN {"no_file"}
    ELSE {"no_compatibility_list", "completed", "file_not_found",
          "empty_data", "raised"}

\* run_check, started with the 'Run Check' button
AppRunCheck ==
    /\ AppFrame
    /\ run_button = "normal"
    /\ \E outcome \in CheckOutcomes :
          /\ last_check' = outcome
          /\ change_detected_flag' =
               IF outcome \in {"completed", "file_not_found", "empty_data"}
               THEN toggle_change(change_detected_flag)
               ELSE change_detected_flag
    /\ change_pending' = FALSE
    /\ UNCHANGED << customer_file_path, run_button >>

-----------------------------------------------------------------------------
(* cc_db.add_file_results *)

Sites == {"site 1", "site 2"}
CsvNames == {"a.csv", "b.csv"}

\* results_data["recommended"]: a list, or a value json.dumps refuses (a
\* set), for which the JSON column's bind processor raises inside the
\* INSERT, wrapped by SQLAlchemy in StatementError
RecommendedValues ==
    { [serializable |-> TRUE, names |-> << >>],
      [serializable |-> TRUE, names |-> << "CC300-4TB" >>],
      [serializable |-> FALSE, names |-> << "CC300-4TB" >>] }

\* a table with one more row; the key is the primary key site_name
Insert(table, site, row) ==
    [k \in DOMAIN table \cup {site} |-> IF k = site THEN row ELSE table[k]]

\* add_file_results(file_data, results_data): session.add(file) and commit,
\* session.add(result) and commit, rollback on SQLAlchemyError
AddFileResults ==
    /\ pc = "idle"
    /\ db_calls < MaxAdds
    /\ db_calls' = db_calls + 1
    /\ \E site \in Sites, csv_name \in CsvNames, recommended \in RecommendedValues :
          IF site \in DOMAIN csv_files
          THEN \* the first commit: IntegrityError on the primary key
               /\ db_error' = "IntegrityError"
               /\ UNCHANGED << csv_files, calculated_results >>
          ELSE /\ csv_files' = Insert(csv_files, site, [csv_name |-> csv_name])
               /\ IF recommended.serializable /\ site \notin DOMAIN calculated_results
                  THEN /\ calculated_results' =
                            Insert(calculated_results, site,
                                   [excess_channels |-> 0,
                                    recommended |-> recommended.names,
                                    cameras |-> ""])
                       /\ db_error' = ""
                  ELSE \* the second commit fails; rollback undoes only it
                       /\ db_error' = IF recommended.serializable
                                      THEN "IntegrityError" ELSE "StatementError"
                       /\ UNCHANGED calculated_results
    /\ UNCHANGED << output, raw_list, camera_mp, mp_counts >>
    /\ UNCHANGED flagVars
    /\ UNCHANGED recVars
    /\ UNCHANGED matchVars
    /\ UNCHANGED tableVars

-----------------------------------------------------------------------------
(* Initial state *)

InitRec ==
    /\ pc = "idle"
    /\ caller = "none"
    /\ req_channels = 0
    /\ req_storage = 0
    /\ prior = NoneList
    /\ channels = 0
    /\ storage = 0
    /\ recommendation = << >>
    /\ depth = 0
    /\ low_channels = 0
    /\ high_channels = 0
    /\ retention = 30
    /\ change = TRUE
    /\ low_storage = 0
    /\ high_storage = 0
    /\ memory = [recommendations |-> NoneList, excess_channels |-> NoneInt]
    /\ stdout = ""
    /\ recommendation_text = [text |-> "", names |-> << >>, excess |-> 0]
    /\ runs = 0
    /\ run_calc = FALSE

InitMatchIdle ==
    /\ camera = [isna |-> TRUE, text |-> ""]
    /\ scores = [ratio |-> [n \in Catalog |-> 0], sort |-> [n \in Catalog |-> 0],
                 set |-> [n \in Catalog |-> 0]]
    /\ iter_order = << >>
    /\ result = [name |-> NoneStr, match_type |-> "", verkada_model |-> NoneStr]

InitApp ==
    /\ output = << >>
    /\ raw_list = << >>
    /\ camera_mp = << >>
    /\ mp_counts = << 0, 0 >>
    /\ change_detected_flag = TRUE
    /\ customer_file_path = NoneStr
    /\ run_button = "disabled"
    /\ last_check = "none"
    /\ change_pending = FALSE
    /\ app_events = 0
    /\ csv_files = << >>
    /\ calculated_results = << >>
    /\ db_error = ""
    /\ db_calls = 0

InitGC == InitRec /\ InitMatchIdle /\ InitTable /\ InitApp

NextGC == CallGetConnectors \/ GcSelect \/ GcReturn \/ GcRecursionError

\* get_connectors called directly, as the tests call it
SpecGC == InitGC /\ [][NextGC]_vars

Next ==
    \/ RecommendConnectors
    \/ GcSelect
    \/ GcReturn
    \/ GcRecursionError
    \/ RecommendConnectorStore
    \/ PerformRecommendationsDisplay

\* the recommender as the application runs it
Spec == InitGC /\ [][Next]_vars

NextMatch == MatchCamera

\* match_camera applied to a cell
SpecMatch == InitGC /\ [][NextMatch]_vars

NextTable ==
    \/ CallGetCameraMatch
    \/ RunCheck
    \/ IdentifyModelColumn
    \/ ApplyMatch
    \/ GetCameraCount
    \/ GetCameraMatchAgain

\* get_camera_match on a customer table, called directly or by run_check
SpecTable == InitGC /\ [][NextTable]_vars

NextPrint == PrintResults

\* print_results applied to a result frame
SpecPrint == InitGC /\ [][NextPrint]_vars

NextSanitize == SanitizeCustomerData

\* sanitize_customer_data applied to a raw table
SpecSanitize == InitGC /\ [][NextSanitize]_vars

NextCountMp == CountMp

\* count_mp applied to a result frame
SpecCountMp == InitGC /\ [][NextCountMp]_vars

NextApp == OnDrop \/ SelectFile \/ RetentionSpinbox \/ AppRunCheck

\* the events of the application window
SpecApp == InitGC /\ [][NextApp]_vars

NextDb == AddFileResults

\* add_file_results called on the in-memory store
SpecDb == InitGC /\ [][NextDb]_vars

NextCount == IdentifyCountColumn

\* identify_count_column applied to a header row
SpecCount == InitGC /\ [][NextCount]_vars

-----------------------------------------------------------------------------
(* Claims about get_connectors called directly (SpecGC) *)

Names(list) == [i \in 1 .. Len(list) |-> list[i].name]

\* the list selected by a direct call that returned
DirectReturn == pc = "returned" /\ caller = "test"

\* list covers the demand (c channels, s thousandths of a terabyte)
Covers(list, c, s) ==
    SumLowChannels(list) >= c /\ TB(SumStorage(list)) >= s

\* C1: a call get_connectors(channels >= 0, storage >= 0) without a prior
\* recommendation that returns normally returns a selection whose low_channels
\* sum to at least channels and whose storage sums to at least storage; for
\* (25, 16) the selection is [CC500-16TB] and the excess channels are 0.
C1_Coverage ==
    (DirectReturn /\ ~prior.some /\ req_channels >= 0 /\ req_storage >= 0)
    => /\ Covers(recommendation, req_channels, req_storage)
       /\ (req_channels = 25 /\ req_storage = TB(16))
          => /\ Names(recommendation) = << "CC500-16TB" >>
             /\ SumLowChannels(recommendation) - req_channels = 0

C1_Witness ==
    /\ DirectReturn /\ ~prior.some
    /\ req_channels = 25 /\ req_storage = TB(16)
    /\ Len(recommendation) = 1

RemoveAt(list, i) ==
    [j \in 1 .. Len(list) - 1 |-> IF j < i THEN list[j] ELSE list[j + 1]]

\* some multiset of n catalog connectors covers (c, s)
CoverableBy(n, c, s) ==
    \E pick \in [1 .. n -> 1 .. Len(COMMAND_CONNECTORS)] :
        Covers([j \in 1 .. n |-> COMMAND_CONNECTORS[pick[j]]], c, s)

-----------------------------------------------------------------------------
(* Claims about the recommender as the application runs it (Spec) *)

\* a recommend_connectors call that ran the calculation and stored its outcome
RunStored ==
    /\ caller = "recommend_connector"
    /\ run_calc
    /\ pc \in {"recommended", "displayed"}

\* the recursion guard tripped in the current run
GuardTripped == RunStored /\ stdout = MaxDepthMessage

\* C2: the recommender never ends by exhausting the call stack, and every run
\* with a positive demand ends with a non-empty selection or with the
\* non-convergence message.
C2_Termination ==
    (caller = "recommend_connector")
    => /\ pc # "raised"
       /\ (RunStored /\ (req_channels > 0 \/ req_storage > 0))
          => (memory.recommendations.value # << >> \/ stdout = MaxDepthMessage)

\* C3: when the recursion guard tripped, what is stored and shown differs from
\* what a successful run that needed no connector stores and shows (an empty
\* list, "No recommendations available.").
C3_NonConvergenceDistinct ==
    GuardTripped
    => /\ memory.recommendations # Some(<< >>)
       /\ (pc = "displayed" => recommendation_text # NoRecommendationsText)

\* C4: the search is sized with low_channels + 2 * high_channels, and the
\* stored excess channels are the low_channels of the stored recommendation
\* minus that total, also when the recommendation is empty or partial.
C4_Excess ==
    RunStored
    => /\ req_channels = low_channels + 2 * high_channels
       /\ memory.excess_channels =
            Some(SumLowChannels(memory.recommendations.value)
                 - (low_channels + 2 * high_channels))

\* a run whose guard tripped: the stored excess is negative
C4_Witness ==
    /\ GuardTripped
    /\ high_channels > 0
    /\ memory.excess_channels.value < 0

\* C6: calculate_low_mp_storage gives 0.256, 0.512, 0.768 TB per channel for
\* retention <= 30, <= 60, <= 90, not multiplied by the days.
C6_LowStorage ==
    (caller = "recommend_connector" /\ run_calc /\ retention <= 90)
    => low_storage = low_channels *
                       (IF retention <= 30 THEN 256
                        ELSE IF retention <= 60 THEN 512 ELSE 768)

\* C7: calculate_4k_storage gives 0.512, 1.024, 2.048 TB per channel for
\* retention <= 30, <= 60, <= 90, not multiplied by the days.
C7_4kStorage ==
    (caller = "recommend_connector" /\ run_calc /\ retention <= 90)
    => high_storage = high_channels *
                        (IF retention <= 30 THEN 512
                         ELSE IF retention <= 60 THEN 1024 ELSE 2048)

\* C8: with a retention above 90 days recommend_connectors does not run the
\* connector search and stores no recommendation.
C8_RetentionRejected ==
    (caller = "recommend_connector" /\ retention > 90 /\ runs = 1)
    => /\ pc # "get_connectors"
       /\ ~memory.recommendations.some
       /\ ~memory.excess_channels.some

-----------------------------------------------------------------------------
(* Claims about match_camera (SpecMatch) *)

\* the greatest value of a scorer over the catalog
BestScore(values) ==
    CHOOSE v \in { values[n] : n \in Catalog } :
        \A n \in Catalog : values[n] <= v

Matched == pc = "matched" /\ ~camera.isna /\ camera.text # ""

\* C9: a non-blank cell is EXACT if the best ratio score or the best sort
\* score is 100, otherwise IDENTIFIED if the best set score is 100, otherwise
\* POTENTIAL if the best ratio score is at least 80, otherwise UNSUPPORTED.
C9_Tiers ==
    Matched
    => LET ratio_score == BestScore(scores.ratio)
           sort_score == BestScore(scores.sort)
           set_score == BestScore(scores.set)
       IN  result.match_type =
             (IF ratio_score = 100 \/ sort_score = 100 THEN MatchExact
              ELSE IF set_score = 100 THEN MatchIdentified
              ELSE IF ratio_score >= 80 THEN MatchPotential
              ELSE MatchUnsupported)

\* the best ratio score is exactly 80, the other scores below 100: POTENTIAL
C9_Witness ==
    /\ Matched
    /\ BestScore(scores.ratio) = 80
    /\ BestScore(scores.sort) < 100
    /\ BestScore(scores.set) < 100
    /\ result.match_type = MatchPotential

\* C10: the matched model of a result is a catalog name that achieved the
\* score that triggered the tier: the best set score for IDENTIFIED, the best
\* sort score for EXACT triggered by the sort score alone, the best ratio
\* score for POTENTIAL and for EXACT triggered by the ratio score.
C10_MatchedModel ==
    (Matched /\ result.verkada_model.some)
    => LET m == result.verkada_model.value
       IN  /\ result.match_type = MatchIdentified
              => scores.set[m] = BestScore(scores.set)
           /\ (result.match_type = MatchExact
               /\ BestScore(scores.ratio) < 100)
              => scores.sort[m] = BestScore(scores.sort)
           /\ (result.match_type = MatchPotential
               \/ (result.match_type = MatchExact
                   /\ BestScore(scores.ratio) = 100))
              => scores.ratio[m] = BestScore(scores.ratio)


\* the matched model is attached to the result
HasModel(r) == r.verkada_model.some

\* C11: in every match result the matched model is non-null exactly when the
\* match type is EXACT, IDENTIFIED or POTENTIAL; the match type is EMPTY
\* exactly when the cell was blank or NaN, and then name and matched model
\* are null; an UNSUPPORTED result has a null matched model.
C11_ResultShape ==
    (pc = "matched")
    => /\ HasModel(result)
          <=> result.match_type \in {MatchExact, MatchIdentified, MatchPotential}
       /\ (result.match_type = MatchEmpty)
          <=> (camera.isna \/ camera.text = "")
       /\ (result.match_type = MatchEmpty)
          => (~result.name.some /\ ~HasModel(result))
       /\ (result.match_type = MatchUnsupported) => ~HasModel(result)
       /\ result.match_type \in {MatchExact, MatchIdentified, MatchPotential,
                                 MatchUnsupported, MatchEmpty}

\* an empty-string cell (not NaN) whose scores would have made it EXACT
C11_Witness ==
    /\ pc = "matched"
    /\ ~camera.isna /\ camera.text = ""
    /\ BestScore(scores.ratio) = 100
    /\ result.match_type = MatchEmpty
    /\ ~result.name.some

-----------------------------------------------------------------------------
(* Claims about get_camera_match on a customer table (SpecTable) *)

\* the sum of the best token-sort scores of the texts of a set
RECURSIVE SumOver(_, _, _)
SumOver(S, order, acc) ==
    IF S = {} THEN acc
    ELSE LET t == CHOOSE x \in S : TRUE
         IN  SumOver(S \ {t}, order, acc + BestSortScore(t, order))

\* the distinct non-blank string values of a column
NonBlankTexts(values) ==
    { values[r].text : r \in { q \in DOMAIN values :
                                 ~values[q].isna /\ values[q].text # "" } }

\* the column score as C12 states it
StatedScore(values, order) ==
    IF \A t \in NonBlankTexts(values) : to_numeric(t).some THEN 0
    ELSE SumOver(NonBlankTexts(values), order, 0)

\* the first column, in scan order, with the greatest stated score; None
\* when no column scores above 0
StatedModelColumn ==
    LET score(c) == StatedScore(customer_list[c].values, set_order)
        best == { c \in DOMAIN customer_list :
                    /\ score(c) > 0
                    /\ \A d \in DOMAIN customer_list : score(d) <= score(c) }
    IN  IF best = {} THEN NoneInt ELSE Some(SetMin(best))

\* identify_model_column has run in the current get_camera_match call
Identified ==
    \/ pc \in {"apply_match_camera", "get_camera_count", "match_returned"}
    \/ pc = "match_raised"

\* C12: identify_model_column returns the first column, in scan order, that
\* attains the greatest column score when that score is above 0, and None
\* when every column scores 0 or the table has no column; the score of a
\* column is the sum of the best token-sort scores of its distinct non-blank
\* strings, and 0 when these are all numeric.
C12_ModelColumn ==
    Identified
    => /\ raised # "ValueError"
       /\ StatedModelColumn.some
          => /\ camera_column.some
             /\ \A c \in DOMAIN customer_list :
                  (~customer_list[c].label.isstr
                   /\ customer_list[c].label.num = camera_column.value)
                  => c = StatedModelColumn.value
       /\ ~StatedModelColumn.some => ~camera_column.some

\* identify_model_column returned None in the current get_camera_match call
NoModelColumn == Identified /\ raised # "ValueError" /\ ~camera_column.some

\* C13: when identify_model_column returns None, get_camera_match hands a
\* null result to its caller and raises no exception.
C13_NullColumnReported ==
    NoModelColumn => (pc # "match_raised" /\ raised = "")

-----------------------------------------------------------------------------
(* Claims about identify_count_column (SpecCount) *)

\* the headers of the model that contain the word "count", the word
\* "quantity" or the character "#"
CountHeaders ==
    { StrLabel(<< "Camera", " ", "Count" >>), StrLabel(<< "count" >>),
      StrLabel(<< "QUANTITY" >>), StrLabel(<< "Quantity" >>),
      StrLabel(<< "Qty", " ", "#" >>) }

-----------------------------------------------------------------------------
(* Claims about get_camera_count (SpecTable) *)

\* the position of the model column of the current call
ModelColumn == LabelLookup(customer_list, camera_column).value

\* the rows of the customer table whose model cell is the given name
RowsNamed(name) ==
    { r \in DOMAIN customer_list[ModelColumn].values :
        /\ ~customer_list[ModelColumn].values[r].isna
        /\ customer_list[ModelColumn].values[r].text = name }

\* a count cell coerced to a number: 0 when missing or not numeric
Coerced(cell) ==
    IF ~cell.isna /\ to_numeric(cell.text).some
    THEN to_numeric(cell.text).value ELSE 0

\* the sum of the coerced cells of a column over a set of rows
RECURSIVE SumCoerced(_, _)
SumCoerced(values, rows) ==
    IF rows = {} THEN 0
    ELSE LET r == CHOOSE x \in rows : TRUE
         IN  Coerced(values[r]) + SumCoerced(values, rows \ {r})

\* get_camera_match returned and the table has a count column
ReturnedWithCountColumn == pc = "match_returned" /\ count_column_name.some

\* C15: when a count column is identified, at any index including 0, the
\* count of every name in the output of get_camera_count is the sum, over
\* the rows of that name, of the count column coerced to a number.
C15_CountColumnSum ==
    ReturnedWithCountColumn
    => \A i \in DOMAIN results :
          results[i].name.some
          => results[i].count =
               CountInt(SumCoerced(customer_list[count_column_name.value + 1].values,
                                   RowsNamed(results[i].name.value)))

\* the rows of the model column that are neither NaN nor empty
NonBlankRows ==
    { r \in DOMAIN customer_list[ModelColumn].values :
        /\ ~customer_list[ModelColumn].values[r].isna
        /\ customer_list[ModelColumn].values[r].text # "" }

\* the sum of the count column of a result frame
RECURSIVE SumCounts(_)
SumCounts(rows) ==
    IF rows = << >> THEN 0 ELSE Head(rows).count.num + SumCounts(Tail(rows))

\* get_camera_match returned and the table has no count column
ReturnedWithoutCountColumn == pc = "match_returned" /\ ~count_column_name.some

\* C16: when the table has no count column, the output of get_camera_count
\* has exactly one row for every distinct non-blank name of the model column,
\* the count of a row is the number of input rows with its name, and the
\* counts sum to the number of non-blank rows of the model column.
C16_OccurrenceCount ==
    ReturnedWithoutCountColumn
    => /\ \A i \in DOMAIN results :
            /\ results[i].name.some
            /\ results[i].name.value # ""
            /\ results[i].count =
                 CountInt(Cardinality(RowsNamed(results[i].name.value)))
       /\ \A i, j \in DOMAIN results :
            results[i].name = results[j].name => i = j
       /\ { results[i].name.value : i \in DOMAIN results }
            = { customer_list[ModelColumn].values[r].text : r \in NonBlankRows }
       /\ SumCounts(results) = Cardinality(NonBlankRows)

\* two rows with the same name give one row with count 2
C16_Witness ==
    /\ ReturnedWithoutCountColumn
    /\ Cardinality(NonBlankRows) = 2
    /\ Len(results) = 1
    /\ results[1].count = CountInt(2)

-----------------------------------------------------------------------------
(* Claims about repeated matching (SpecTable) *)

\* get_camera_match returned for the second time on the same table and catalog
ReturnedAgain == pc = "match_returned" /\ match_runs = 2

\* C17: get_camera_match run twice on the same customer table and the same
\* catalog gives the same rows (names, match types, matched models, counts),
\* also when two catalog names tie for the best score of a cell.
C17_Deterministic == ReturnedAgain => results = previous.results

\* the table has one column that names the catalog model "cc1" in every
\* one of its n >= 1 rows, in upper case, and the catalog holds that model only
NamesOneModel ==
    /\ verkada_cameras = << "cc1" >>
    /\ Len(customer_list) = 1
    /\ Len(customer_list[1].values) >= 1
    /\ \A r \in DOMAIN customer_list[1].values :
          customer_list[1].values[r] = Str("CC1")

\* C18: end to end (run_check), a customer column that names the only
\* catalog model n >= 1 times, case-insensitively, is matched to exactly one
\* EXACT row with count n, which recommend_connectors then turns into a
\* non-empty recommendation; the formula states the matching half, on which
\* the other half depends.
C18_RoundTrip ==
    (entry = "run_check" /\ NamesOneModel
     /\ pc \in {"match_raised", "match_returned"})
    => /\ pc = "match_returned"
       /\ results = << [name |-> Some("CC1"), match_type |-> MatchExact,
                        verkada_model |-> Some("cc1"),
                        count |-> CountInt(Len(customer_list[1].values))] >>

-----------------------------------------------------------------------------
(* Claims about the recommendation argument of get_connectors (SpecGC) *)

\* what get_connectors(c, s, list) returns, frame by frame
RECURSIVE Selection(_, _, _, _)
Selection(c, s, list, d) ==
    LET f == FrameBody(c, s, list)
    IN  IF EndCase(Max0(c), Max0(s)) \/ ~f.selected \/ d >= MaxDepth THEN list
        ELSE Selection(f.channels, f.storage, f.recommendation, d + 1)

\* C19: called with an existing recommendation list, get_connectors returns
\* that list, unchanged and in its order, followed by the connectors a call
\* without a list selects for the same channels and storage, in selection
\* order; (10, 5, [CC300-8TB]) gives [CC300-8TB, CC300-8TB].
C19_PriorKept ==
    (DirectReturn /\ prior.some)
    => /\ recommendation =
            prior.value \o Selection(req_channels, req_storage, << >>, 1)
       /\ (req_channels = 10 /\ req_storage = TB(5)
           /\ Names(prior.value) = << "CC300-8TB" >>)
          => Names(recommendation) = << "CC300-8TB", "CC300-8TB" >>

\* a prior list of two different connectors, and two more selected
C19_Witness ==
    /\ DirectReturn /\ prior.some
    /\ Len(prior.value) = 2
    /\ Len(recommendation) = 4
    /\ recommendation[1] = prior.value[1]
    /\ recommendation[2] = prior.value[2]

\* C20: with channels <= 0 and storage <= 0 get_connectors selects nothing and
\* returns the list it was given (the empty list when it was given none);
\* every frame clamps negative channels and storage to 0 before it scores, so
\* the frame that returns holds no negative value.
C20_NothingToSelect ==
    /\ (DirectReturn /\ req_channels <= 0 /\ req_storage <= 0)
       => (recommendation = InitialList(prior) /\ depth = 1)
    /\ (pc = "returned") => (channels >= 0 /\ storage >= 0)

\* a call with negative channels and negative storage and a prior list
C20_Witness ==
    /\ DirectReturn
    /\ req_channels < 0 /\ req_storage < 0
    /\ prior.some /\ Len(prior.value) = 1
    /\ recommendation = prior.value
    /\ channels = 0 /\ storage = 0
-----------------------------------------------------------------------------
(* Claims about one selection step of get_connectors (SpecGC) *)

\* a step in which a frame of get_connectors selects a connector
SelectionStep ==
    /\ pc = "get_connectors"
    /\ Len(recommendation') = Len(recommendation) + 1

\* the connector the step selects
Chosen == recommendation'[Len(recommendation')]

\* preference rounding as stated: strictly between two tiers goes up
RoundedStorage(s) ==
    IF TB(4) < s /\ s < TB(8) THEN TB(8)
    ELSE IF TB(8) < s /\ s < TB(16) THEN TB(16)
    ELSE IF TB(16) < s /\ s < TB(32) THEN TB(32)
    ELSE s

RoundedChannels(c) == IF 10 < c /\ c < 25 THEN 25 ELSE c

\* the values the step scores against: clamped at entry, then rounded
ScoredChannels == RoundedChannels(IF channels > 0 THEN channels ELSE 0)
ScoredStorage == RoundedStorage(IF storage > 0 THEN storage ELSE 0)

StorageDistance(device) == Abs(TB(device.storage) - ScoredStorage)
ChannelDistance(device) == Abs(device.low_channels - ScoredChannels)

Devices == { COMMAND_CONNECTORS[i] : i \in 1 .. Len(COMMAND_CONNECTORS) }

\* device has the least storage distance and, among those, the least channel
\* distance
NearestByStorage(device) ==
    \A other \in Devices :
        /\ StorageDistance(device) <= StorageDistance(other)
        /\ StorageDistance(other) = StorageDistance(device)
           => ChannelDistance(device) <= ChannelDistance(other)

\* C21 as stated: every selection step chooses a connector with the least
\* storage distance and, among those, the least channel distance; no connector
\* with a larger storage distance is chosen over one with a smaller.
C21_NearestStorage == [][SelectionStep => NearestByStorage(Chosen)]_vars

\* C21 amended: every selection step chooses a connector with the least
\* storage distance and, among those, the least channel distance, or else a
\* connector whose low_channels equal the remaining channels exactly and
\* which has the least storage distance among the connectors that do.
C21_NearestOrExactChannels ==
    [][SelectionStep =>
         \/ NearestByStorage(Chosen)
         \/ /\ ChannelDistance(Chosen) = 0
            /\ \A other \in Devices :
                  ChannelDistance(other) = 0
                  => StorageDistance(Chosen) <= StorageDistance(other)]_vars

\* get_connectors(25, 0) selected CC500-8TB, 8 TB away, over CC300-4TB, 4 TB
\* away
C21_Witness ==
    /\ pc = "get_connectors" /\ caller = "test" /\ ~prior.some
    /\ req_channels = 25 /\ req_storage = 0
    /\ depth = 2
    /\ Names(recommendation) = << "CC500-8TB" >>

\* the connector a frame entered with (c, s) selects
SelectedFor(c, s) == FrameBody(c, s, << >>).recommendation

\* what get_connectors(c, s) returned without a prior recommendation
Returned(c, s, names) ==
    (DirectReturn /\ ~prior.some /\ req_channels = c /\ req_storage = s)
    => Names(recommendation) = names

\* the examples of the tests
RoundingExamples ==
    /\ Returned(10, TB(5), << "CC300-8TB" >>)
    /\ Returned(30, TB(20), << "CC700-32TB" >>)
    /\ Returned(100, TB(100),
                << "CC700-32TB", "CC700-32TB", "CC700-32TB", "CC300-4TB" >>)

-----------------------------------------------------------------------------
(* Claims about the stored recommendation across runs (Spec) *)

\* a step that is a call of recommend_connectors
CallStep == runs' = runs + 1

\* memory holds a recommendation and an excess-channel value
HoldsBoth == memory.recommendations.some /\ memory.excess_channels.some
HoldsNeither == ~memory.recommendations.some /\ ~memory.excess_channels.some

\* what a finished rebuild stored: the selection of this run's search (an
\* empty list after RecursionError) and its excess channels
Rebuilt ==
    LET found == IF stdout = MaxDepthMessage THEN << >> ELSE recommendation
    IN  /\ memory.recommendations = Some(found)
        /\ memory.excess_channels =
             Some(SumLowChannels(found) - req_channels)

-----------------------------------------------------------------------------
(* Claims about the rows get_camera_count keeps (SpecTable) *)

\* the rows of the model column that are NaN or empty
BlankRows ==
    { r \in DOMAIN customer_list[ModelColumn].values :
        \/ customer_list[ModelColumn].values[r].isna
        \/ customer_list[ModelColumn].values[r].text = "" }

\* C24: get_camera_count returns one row per distinct name; the rows it
\* removes are exactly those with a null name and a match type other than
\* EMPTY, and the rows of match type EMPTY, which stand for blank cells, are
\* kept.
C24_EmptyRowsKept ==
    (pc = "match_returned")
    => /\ \A i, j \in DOMAIN results :
            results[i].name = results[j].name => i = j
       /\ \A i \in DOMAIN results :
            results[i].name.some \/ results[i].match_type = MatchEmpty
       /\ BlankRows # {}
          => \E i \in DOMAIN results : results[i].match_type = MatchEmpty
-----------------------------------------------------------------------------
(* Claims about print_results (SpecPrint) *)

\* the tiers in the order of the presentation
Tier(match_type) ==
    CASE match_type = MatchExact -> 0
      [] match_type = MatchIdentified -> 1
      [] match_type = MatchPotential -> 2
      [] match_type = MatchUnsupported -> 3
      [] OTHER -> 4

\* the position of a name in the result frame
PositionOf(name) ==
    CHOOSE i \in DOMAIN results : results[i].name = Some(name)

\* output holds the rows of the result frame, each once
SameRows ==
    /\ Len(output) = Len(results)
    /\ \A i \in DOMAIN results : \E j \in DOMAIN output :
          output[j] = OutputRow(results[i])

\* rows with equal keys stand in the order of the result frame
StableFor(Key(_)) ==
    \A i, j \in DOMAIN output :
        (i < j /\ Key(output[i].match_type) = Key(output[j].match_type))
        => PositionOf(output[i].camera_name) < PositionOf(output[j].camera_name)

\* C25: the rows print_results renders are ordered EXACT, then IDENTIFIED,
\* then POTENTIAL, then UNSUPPORTED, and rows of one tier keep the order they
\* had in the results.
C25_TierOrder ==
    (pc = "printed")
    => /\ SameRows
       /\ \A i, j \in DOMAIN output :
            i < j => Tier(output[i].match_type) <= Tier(output[j].match_type)
       /\ StableFor(Tier)
-----------------------------------------------------------------------------
(* Claims about sanitize_customer_data (SpecSanitize) *)

\* the column holds an IP address or a MAC address in some cell
HoldsAddress(col) ==
    \E r \in DOMAIN col.values :
        /\ ~col.values[r].isna
        /\ col.values[r].text \in {"192.168.1.1", "00:1A:2B:3C:4D:5E"}

\* C26: sanitize_customer_data removes every column that holds an IP address
\* or a MAC address in at least one cell of its input; the table returned has
\* no such column.
C26_AddressColumnsRemoved ==
    (pc = "sanitized")
    => \A c \in DOMAIN raw_list :
          HoldsAddress(raw_list[c])
          => \A d \in DOMAIN customer_list :
                customer_list[d].label # raw_list[c].label
-----------------------------------------------------------------------------
(* Claims about count_mp (SpecCountMp) *)

\* the megapixels of the model a row matched
MpOf(row) ==
    LET at == CHOOSE i \in DOMAIN camera_mp :
                 camera_mp[i].model_name = row.verkada_model.value
    IN  camera_mp[at].mp

\* the sum of count over the rows at the given positions
RECURSIVE SumAt(_, _)
SumAt(rows, at) ==
    IF at = {} THEN 0
    ELSE LET i == CHOOSE i \in at : TRUE
         IN  rows[i].count.num + SumAt(rows, at \ {i})

\* the rows with a matched model
MatchedRows == { i \in DOMAIN results : HasModel(results[i]) }

\* C27: count_mp adds the count of every row with a matched model to the
\* low-resolution demand when the model has at most 5 megapixels and to the
\* high-resolution demand when it has more; rows without a matched model add
\* nothing, so low plus high is the sum of count over the matched rows.
C27_CountMp ==
    (pc = "counted")
    => /\ mp_counts[1] = SumAt(results, { i \in MatchedRows : MpOf(results[i]) <= 5 })
       /\ mp_counts[2] = SumAt(results, { i \in MatchedRows : MpOf(results[i]) > 5 })
       /\ mp_counts[1] + mp_counts[2] = SumAt(results, MatchedRows)

\* a frame with a model of exactly 5 megapixels, one above, and an
\* unsupported row
C27_Witness ==
    /\ pc = "counted"
    /\ Len(results) = 3
    /\ \E i, j, k \in DOMAIN results :
          /\ HasModel(results[i]) /\ MpOf(results[i]) = 5
          /\ HasModel(results[j]) /\ MpOf(results[j]) > 5
          /\ ~HasModel(results[k])
    /\ mp_counts[1] > 0 /\ mp_counts[2] > 0
-----------------------------------------------------------------------------
(* Claims about successive steps of get_connectors (SpecGC) *)

\* the remaining requirement at the entry of a step: clamped, not rounded
Remaining(x) == IF x > 0 THEN x ELSE 0

\* C28: from one step of get_connectors to the next the remaining channels
\* and the remaining storage, taken at step entry after clamping and before
\* rounding, never increase, and every step that selects a connector
\* strictly decreases at least one of them.
C28_RemainingDecreases ==
    [][SelectionStep =>
         /\ Remaining(channels') <= Remaining(channels)
         /\ Remaining(storage') <= Remaining(storage)
         /\ \/ Remaining(channels') < Remaining(channels)
            \/ Remaining(storage') < Remaining(storage)]_vars

\* get_connectors(60, 20): the storage was rounded up to 32, CC700-32TB was
\* selected, 10 channels and no storage remain
C28_Witness ==
    /\ pc = "get_connectors" /\ caller = "test" /\ ~prior.some
    /\ req_channels = 60 /\ req_storage = TB(20)
    /\ depth = 2
    /\ channels = 10 /\ Remaining(storage) = 0
-----------------------------------------------------------------------------
(* Claims about the change flag of the application (SpecApp) *)

\* C29: once run_check has been called, change_detected_flag is true exactly
\* when a file selection, a file drop or a retention change has happened
\* since the last run_check; it is false after every run_check that no
\* change event follows, also after two run_check calls in a row and after
\* a run_check that returns early.
C29_ChangeFlag ==
    (last_check # "none") => (change_detected_flag <=> change_pending)
-----------------------------------------------------------------------------
(* Claims about the in-memory store (SpecDb) *)

\* C30: after any sequence of add_file_results calls, succeeding or failing,
\* the store holds a Files row for a site exactly when it holds a Results
\* row for that site; a failed add leaves neither row behind.
C30_FilesIffResults ==
    \A site \in Sites :
        site \in DOMAIN csv_files <=> site \in DOMAIN calculated_results

====
